---- MODULE Spec2Model ----
(***************************************************************************)
(* UART baudrate detection (owfmodules.uart.baudrate, class Baudrate).     *)
(* One run of Baudrate.run(): option check, init, candidate loop           *)
(* (incremental_mode / list_mode), and for every candidate                 *)
(* change_baudrate, reset_target and process_baudrate.  The serial         *)
(* transport, the GPIO reset line and the user are the environment.        *)
(***************************************************************************)
EXTENDS Integers, Sequences, FiniteSets, TLC

\* ------------------------------------------------------------------ bounds
\* Counters are only ever compared with `threshold` (count) and with 0
\* (whitespace, vowels); values above the caps are folded onto the cap.
CountCap == 21
ClassCap == 1
\* wait_bytes on its own: clock ticks per second, latest tick at which the
\* call starts, and the largest pending-byte count the transport reports.
TicksPerSecond == 3
MaxStart == 2
MaxPending == 2

\* ------------------------------------------------------- program constants
threshold == 20
MaxTriggerLoop == 3
timeout == 1
Unbound == -1

\* ------------------------------------------------------------ characters
\* A decoded unit: a str of one code point, or the raw bytes object.
Str(c) == [kind |-> "str", v |-> c]
RawBytes(b) == [kind |-> "bytes", v |-> b]

vowels_list == {Str(c) : c \in {97, 65, 101, 69, 105, 73, 111, 79, 117, 85}}
whitespace_list == {Str(c) : c \in {32, 9, 13, 10}}
punctation_list == {Str(c) : c \in {46, 44, 58, 59, 63, 33}}
control_list == {RawBytes(b) : b \in {14, 15, 224, 254, 192, 13, 10}}

\* Mutant: the loop stops one character early ('~' is left out).
gen_char_list_StopsEarly ==
    LET printable == {Str(c) : c \in 32..125}
        withWs == printable \cup {c \in whitespace_list : c \notin printable}
    IN  withWs \cup {c \in control_list : c \notin withWs}

\* gen_char_list: ' '..'~', then the whitespace and the control entries that
\* are not in the list yet (a str never equals a bytes object).
gen_char_list ==
    LET printable == {Str(c) : c \in 32..126}
        withWs == printable \cup {c \in whitespace_list : c \notin printable}
    IN  withWs \cup {c \in control_list : c \notin withWs}

\* tmp.decode('utf-8') of one byte: bytes below 0x80 decode to themselves,
\* every other single byte raises UnicodeDecodeError and the raw bytes stay.
Decode(b) == IF b < 128 THEN Str(b) ELSE RawBytes(b)

\* Category of a received byte as process_baudrate lines 222-240 treat it.
\* "whitespace", "punctuation", "vowel": the matching counter and count are
\* incremented; "other": only count; "invalid": the trial is abandoned.
Classify(b) ==
    LET byte == Decode(b)
    IN  IF byte \in gen_char_list
        THEN IF byte \in whitespace_list THEN "whitespace"
             ELSE IF byte \in punctation_list THEN "punctuation"
             ELSE IF byte \in vowels_list THEN "vowel"
             ELSE "other"
        ELSE "invalid"

\* Mutant: punctuation is required too.
AcceptCondition_NeedsPunctuation(c, w, p, v) == c >= threshold /\ w > 0 /\ p > 0 /\ v > 0

\* Line 241: count >= threshold and whitespace > 0 and punctuation >= 0 and vowels > 0
AcceptCondition(c, w, p, v) == c >= threshold /\ w > 0 /\ p >= 0 /\ v > 0

Bump(n, cap) == IF n < cap THEN n + 1 ELSE cap

\* --------------------------------------------------------------- strings
\* Option strings that are parsed are sequences of one-character strings.
Digits == {"0", "1", "2", "3", "4", "5", "6", "7", "8", "9"}
Blank == {" "}

DigitVal(ch) ==
    CASE ch = "0" -> 0 [] ch = "1" -> 1 [] ch = "2" -> 2 [] ch = "3" -> 3
      [] ch = "4" -> 4 [] ch = "5" -> 5 [] ch = "6" -> 6 [] ch = "7" -> 7
      [] ch = "8" -> 8 [] ch = "9" -> 9

\* str.split(","): always at least one field; "" splits to [""].
RECURSIVE SplitAcc(_, _, _)
SplitAcc(s, cur, acc) ==
    IF s = <<>> THEN Append(acc, cur)
    ELSE IF Head(s) = "," THEN SplitAcc(Tail(s), <<>>, Append(acc, cur))
    ELSE SplitAcc(Tail(s), Append(cur, Head(s)), acc)

Split(s) == SplitAcc(s, <<>>, <<>>)

\* str.strip(): leading and trailing blanks removed.
RECURSIVE LStrip(_)
LStrip(s) == IF s # <<>> /\ Head(s) \in Blank THEN LStrip(Tail(s)) ELSE s

RECURSIVE RStrip(_)
RStrip(s) ==
    IF s # <<>> /\ s[Len(s)] \in Blank THEN RStrip(SubSeq(s, 1, Len(s) - 1)) ELSE s

Strip(s) == RStrip(LStrip(s))

\* int(s) on the characters the model draws: digits only, at least one;
\* anything else raises ValueError.
IsInt(s) == s # <<>> /\ \A i \in 1..Len(s) : s[i] \in Digits

RECURSIVE IntOf(_)
IntOf(s) == IF s = <<>> THEN 0 ELSE 10 * IntOf(SubSeq(s, 1, Len(s) - 1)) + DigitVal(s[Len(s)])

\* [b.strip() for b in baudrate_list.split(",")]
StrippedFields(s) == [i \in 1..Len(Split(s)) |-> Strip(Split(s)[i])]

\* Mutant: a baudrate that was already listed is dropped.
ParseList_NoDuplicates(s) ==
    LET all == [i \in 1..Len(StrippedFields(s)) |-> IntOf(StrippedFields(s)[i])]
    IN  SelectSeq([i \in 1..Len(all) |->
                      IF \E j \in 1..(i - 1) : all[j] = all[i] THEN 0 ELSE all[i]],
                  LAMBDA x : x # 0)

\* [int(b.strip()) for b in baudrate_list.split(",")], when no item raises.
ParseList(s) == [i \in 1..Len(StrippedFields(s)) |-> IntOf(StrippedFields(s)[i])]

ListParses(s) == \A i \in 1..Len(StrippedFields(s)) : IsInt(StrippedFields(s)[i])

\* range(lo, hi, step) with step # 0, as the sequence it iterates over.
RangeLen(lo, hi, step) ==
    IF step > 0 THEN (IF lo < hi THEN ((hi - lo - 1) \div step) + 1 ELSE 0)
    ELSE (IF lo > hi THEN ((lo - hi - 1) \div (0 - step)) + 1 ELSE 0)

\* Mutant: the upper bound is included.
RangeSeq_Inclusive(lo, hi, step) ==
    [i \in 1..RangeLen(lo, hi + 1, step) |-> lo + (i - 1) * step]

RangeSeq(lo, hi, step) == [i \in 1..RangeLen(lo, hi, step) |-> lo + (i - 1) * step]

\* str.upper() on the option strings the model draws.
Upper(s) ==
    CASE s = "incremental" -> "INCREMENTAL"
      [] s = "list" -> "LIST"
      [] s = "low" -> "LOW"
      [] s = "high" -> "HIGH"
      [] s = "y" -> "Y"
      [] s = "n" -> "N"
      [] OTHER -> s

\* --------------------------------------------------------------- options
NoPin == -1

ListA == <<"9", "6", "0", "0", ",", " ", "1", "9", "2", "0", "0", ",", "3", "8", "4", "0", "0">>
ListDup == <<"9", "6", "0", "0", ",", "9", "6", "0", "0">>
ListEmpty == <<>>
ListBad == <<"9", "6", "0", "0", ",", "x">>

BaudrateLists == {ListA, ListDup, ListEmpty, ListBad}
IncrementalRanges ==
    {<<300, 1200, 300>>, <<9600, 19201, 9600>>, <<300, 300, 300>>, <<300, 1200, 0>>,
     <<1200, 300, -300>>}
ModeValues == {"incremental", "list", "auto"}
ResetOptions ==
    {[pin |-> NoPin, dir |-> "low"], [pin |-> 3, dir |-> "low"], [pin |-> 3, dir |-> "HIGH"],
     [pin |-> 15, dir |-> "low"], [pin |-> 3, dir |-> "down"]}

\* The option values of one run.  The options a mode does not read keep one
\* fixed value.
OptionSets ==
    {[mode |-> m, reset_pin |-> r.pin, reset_dir |-> r.dir, trigger |-> t,
      baudrate_min |-> g[1], baudrate_max |-> g[2], baudrate_increment |-> g[3],
      baudrate_list |-> l] :
        m \in ModeValues, r \in ResetOptions, t \in BOOLEAN,
        g \in IncrementalRanges, l \in BaudrateLists}

Options ==
    {o \in OptionSets :
        /\ Upper(o.mode) = "INCREMENTAL" => o.baudrate_list = ListA
        /\ Upper(o.mode) # "INCREMENTAL" =>
              <<o.baudrate_min, o.baudrate_max, o.baudrate_increment>> = <<300, 1200, 300>>
        /\ Upper(o.mode) \notin {"INCREMENTAL", "LIST"} => o.baudrate_list = ListA}

\* ------------------------------------------------------------- transport
\* Bytes the target may put on the line at any poll ("free" feed), and the
\* text a talking target sends ("text" feed): "Hello, world! This is a test.\n".
Bytes == {0, 10, 14, 32, 44, 97, 120, 128, 224}
Hello == <<72, 101, 108, 108, 111, 44, 32, 119, 111, 114, 108, 100, 33, 32,
           84, 104, 105, 115, 32, 105, 115, 32, 97, 32, 116, 101, 115, 116, 46, 10>>
\* What a target that only talks at 19200 sends at any other speed: silence
\* or bytes that never add up to acceptable text.
Garbage == {0, 120, 128}
Feeds == {"free", "text"}

\* "any": at every speed the target may send anything or the text;
\* "talks19200": the text at 19200, silence or garbage at any other speed.
Targets == {"any", "talks19200"}

FeedsAt(t, b) ==
    IF t = "any" THEN Feeds
    ELSE IF b = 19200 THEN {"text"} ELSE {"noise"}

\* The option values the functions run on their own are given.
DefaultOptions ==
    [mode |-> "incremental", reset_pin |-> NoPin, reset_dir |-> "low", trigger |-> FALSE,
     baudrate_min |-> 300, baudrate_max |-> 1200, baudrate_increment |-> 300,
     baudrate_list |-> ListA]

VARIABLES
    options,      \* self.options / self.advanced_options values
    pc,           \* position of run()
    reset_line,   \* self.reset_line: "None" or "GPIO"
    status,       \* level last written to the reset line, Unbound if never written
    speed,        \* baudrate the transport is configured to, 0 before any configure
    candidates,   \* the sequence the for loop iterates over
    idx,          \* number of candidates the for loop has taken
    baudrate,     \* loop variable
    count, whitespace, punctuation, vowels, loop, tmp,  \* locals of process_baudrate
    feed, pos,    \* what the target sends at the configured speed
    tried,        \* history: baudrates passed to change_baudrate, in order
    outcome,      \* history: how the current candidate's trial ended
    resetCalls,   \* history: reset_target calls for the current candidate
    waited,       \* history: wait_bytes was called for the current candidate
    txCount,      \* history: transmit calls for the current candidate
    nread,        \* history: bytes received for the current candidate (capped)
    sawInvalid,   \* history: an invalid byte was received for the current candidate
    lastByte,     \* history: the last byte received for the current candidate
    result,       \* how run() ended
    found,        \* baudrate logged as "Valid baudrate found", 0 if none
    miniterm,     \* the passthrough session was opened
    target,       \* what kind of target is wired to the transport
    prompts,      \* history: number of times the user was prompted
    failedSwitches, \* history: change_baudrate calls that returned False
    probe,        \* classifier on its own: the byte under test
    category,     \* classifier on its own: the category it got, "none" before
    now,          \* wait_bytes on its own: time.time(), in ticks
    timeout_start,\* wait_bytes on its own: local timeout_start
    in_waiting,   \* wait_bytes on its own: local in_waiting (last poll)
    wpc,          \* wait_bytes on its own: position in wait_bytes
    wret,         \* wait_bytes on its own: "None", "True" or "False"
    quiet         \* wait_bytes on its own: the pending count is always 0

locals == <<count, whitespace, punctuation, vowels, loop, tmp>>
trialHistory == <<outcome, resetCalls, waited, txCount, nread, sawInvalid, lastByte>>
classifierVars == <<probe, category>>
waiterVars == <<now, timeout_start, in_waiting, wpc, wret, quiet>>
runVars == <<options, pc, reset_line, status, speed, candidates, idx, baudrate, locals,
             feed, pos, tried, trialHistory, result, found, miniterm, target, prompts,
             failedSwitches>>
\* State of the functions that are also run on their own.
standalone == <<classifierVars, waiterVars>>
vars == <<options, pc, reset_line, status, speed, candidates, idx, baudrate, locals,
          feed, pos, tried, trialHistory, result, found, miniterm, target, prompts,
          failedSwitches, standalone>>

\* Nothing of run() has happened yet.
RunIdle ==
    /\ reset_line = "None"
    /\ status = Unbound
    /\ speed = 0
    /\ candidates = <<>>
    /\ idx = 0
    /\ baudrate = 0
    /\ count = Unbound /\ whitespace = Unbound /\ punctuation = Unbound
    /\ vowels = Unbound /\ loop = Unbound /\ tmp = Unbound
    /\ feed = "free" /\ pos = 0
    /\ tried = <<>>
    /\ outcome = "None" /\ resetCalls = 0 /\ waited = FALSE /\ txCount = 0
    /\ nread = 0 /\ sawInvalid = FALSE /\ lastByte = Unbound
    /\ result = "None"
    /\ found = 0
    /\ miniterm = FALSE
    /\ prompts = 0
    /\ failedSwitches = 0

ClassifierIdle == probe = Unbound /\ category = "none"

WaiterIdle ==
    /\ now = 0 /\ timeout_start = Unbound /\ in_waiting = Unbound
    /\ wpc = "off" /\ wret = "None" /\ quiet = FALSE

Init ==
    /\ options \in Options
    /\ target \in Targets
    /\ pc = "run"
    /\ RunIdle
    /\ ClassifierIdle
    /\ WaiterIdle

\* The frame of process_baudrate is gone: its locals are not bound.
LocalsUnbound ==
    /\ count' = Unbound /\ whitespace' = Unbound /\ punctuation' = Unbound
    /\ vowels' = Unbound /\ loop' = Unbound /\ tmp' = Unbound

\* run() returns or is left by an exception.
Finish(r) ==
    /\ pc' = "done"
    /\ result' = r

\* ---------------------------------------------------------- check_options
\* Mutant: the mode and the reset options are not looked at.
CheckOptionsOk_ListOnly(o) ==
    Upper(o.mode) = "LIST" => StrippedFields(o.baudrate_list) # <<>>

CheckOptionsOk(o) ==
    /\ o.reset_pin # NoPin =>
          /\ Upper(o.reset_dir) \in {"LOW", "HIGH"}
          /\ o.reset_pin \in 0..14
    /\ Upper(o.mode) \in {"INCREMENTAL", "LIST"}
    /\ Upper(o.mode) = "LIST" => StrippedFields(o.baudrate_list) # <<>>

check_options ==
    /\ pc = "run"
    /\ IF CheckOptionsOk(options)
       THEN pc' = "init" /\ result' = result
       ELSE Finish("NotStarted")
    /\ UNCHANGED <<standalone, options, target, failedSwitches, prompts, reset_line, status, speed, candidates, idx, baudrate, locals,
                   feed, pos, tried, trialHistory, found, miniterm>>

\* ------------------------------------------------------------------- init
\* Level init leaves the reset line at (lines 290-293).
InitLevel(dir) == IF Upper(dir) = "LOW" THEN 1 ELSE 0

init ==
    /\ pc = "init"
    /\ IF options.reset_pin # NoPin
       THEN reset_line' = "GPIO" /\ status' = InitLevel(options.reset_dir)
       ELSE reset_line' = "None" /\ status' = status
    /\ pc' = "mode"
    /\ UNCHANGED <<standalone, options, target, failedSwitches, prompts, speed, candidates, idx, baudrate, locals, feed, pos, tried,
                   trialHistory, result, found, miniterm>>

\* ------------------------------------------- incremental_mode / list_mode
\* The iterable of the for loop is built before the first iteration;
\* range() with step 0 and int() of a non-number raise ValueError, which
\* run() catches and logs.
incremental_mode ==
    /\ pc = "mode"
    /\ Upper(options.mode) = "INCREMENTAL"
    /\ IF options.baudrate_increment = 0
       THEN Finish("Error") /\ candidates' = candidates
       ELSE /\ candidates' = RangeSeq(options.baudrate_min, options.baudrate_max,
                                      options.baudrate_increment)
            /\ pc' = "next" /\ result' = result
    /\ UNCHANGED <<standalone, options, target, failedSwitches, prompts, reset_line, status, speed, idx, baudrate, locals, feed, pos,
                   tried, trialHistory, found, miniterm>>

list_mode ==
    /\ pc = "mode"
    /\ Upper(options.mode) = "LIST"
    /\ IF ListParses(options.baudrate_list)
       THEN /\ candidates' = ParseList(options.baudrate_list)
            /\ pc' = "next" /\ result' = result
       ELSE Finish("Error") /\ candidates' = candidates
    /\ UNCHANGED <<standalone, options, target, failedSwitches, prompts, reset_line, status, speed, idx, baudrate, locals, feed, pos,
                   tried, trialHistory, found, miniterm>>

\* Mutant: the result of change_baudrate is ignored.
AfterSwitch_Always(ok) == "reset"

\* Mutant: a failed switch ends the scan.
AfterSwitch_Abort(ok) == IF ok THEN "reset" ELSE "done"

\* Where the loop body goes after change_baudrate returned ok.
AfterSwitch(ok) == IF ok THEN "reset" ELSE "next"

\* One iteration of the for loop begins: the next candidate is bound and
\* change_baudrate(baudrate) is called.  It returns True when the three
\* transport calls went through, False when one raised (the transport may
\* or may not have taken the new speed by then).
change_baudrate ==
    /\ pc = "next"
    /\ idx < Len(candidates)
    /\ idx' = idx + 1
    /\ baudrate' = candidates[idx + 1]
    /\ tried' = Append(tried, candidates[idx + 1])
    /\ \E ok \in BOOLEAN :
          /\ pc' = AfterSwitch(ok)
          /\ IF ok
             THEN speed' = candidates[idx + 1] /\ feed' \in FeedsAt(target, candidates[idx + 1])
             ELSE speed' \in {speed, candidates[idx + 1]} /\ feed' = "free"
          /\ outcome' = IF ok THEN "None" ELSE "SwitchFailed"
          /\ failedSwitches' = IF ok THEN failedSwitches ELSE failedSwitches + 1
    /\ pos' = 0
    /\ resetCalls' = 0 /\ waited' = FALSE /\ txCount' = 0 /\ nread' = 0
    /\ sawInvalid' = FALSE /\ lastByte' = Unbound
    /\ UNCHANGED <<standalone, options, target, prompts, reset_line, status, candidates, locals, result, found, miniterm>>

\* The for loop has no candidate left: the mode function and run() return.
loop_exhausted ==
    /\ pc = "next"
    /\ idx = Len(candidates)
    /\ Finish("Exhausted")
    /\ UNCHANGED <<standalone, options, target, failedSwitches, prompts, reset_line, status, speed, candidates, idx, baudrate, locals,
                   feed, pos, tried, trialHistory, found, miniterm>>

\* ----------------------------------------------------------- reset_target
ResetActiveLevel(dir) == IF Upper(dir) = "LOW" THEN 0 ELSE 1
\* Mutant: the line is released to the wrong level.
ResetIdleLevel_Inverted(dir) == IF Upper(dir) = "LOW" THEN 0 ELSE 1

ResetIdleLevel(dir) == IF Upper(dir) = "LOW" THEN 1 ELSE 0

\* Lines 263-266 / 270: nothing without a reset line, else the first write.
reset_target ==
    /\ pc = "reset"
    /\ resetCalls' = resetCalls + 1
    /\ IF reset_line # "None"
       THEN status' = ResetActiveLevel(options.reset_dir) /\ pc' = "reset_hold"
       ELSE status' = status /\ pc' = "process"
    /\ UNCHANGED <<standalone, options, target, failedSwitches, prompts, reset_line, speed, candidates, idx, baudrate, locals, feed, pos,
                   tried, outcome, waited, txCount, nread, sawInvalid, lastByte, result,
                   found, miniterm>>

\* Lines 267-268 / 271-272: after reset_hold the second write.
reset_release ==
    /\ pc = "reset_hold"
    /\ status' = ResetIdleLevel(options.reset_dir)
    /\ pc' = "reset_delay"
    /\ UNCHANGED <<standalone, options, target, failedSwitches, prompts, reset_line, speed, candidates, idx, baudrate, locals, feed, pos,
                   tried, trialHistory, result, found, miniterm>>

\* Line 273: after reset_delay reset_target returns.
reset_return ==
    /\ pc = "reset_delay"
    /\ pc' = "process"
    /\ UNCHANGED <<standalone, options, target, failedSwitches, prompts, reset_line, status, speed, candidates, idx, baudrate, locals,
                   feed, pos, tried, trialHistory, result, found, miniterm>>

\* ------------------------------------------------------- process_baudrate
\* Lines 202-208: the counters of a trial.
process_baudrate ==
    /\ pc = "process"
    /\ count' = 0 /\ whitespace' = 0 /\ punctuation' = 0 /\ vowels' = 0
    /\ loop' = 0
    /\ tmp' = Unbound
    /\ pc' = "wait"
    /\ UNCHANGED <<standalone, options, target, failedSwitches, prompts, reset_line, status, speed, candidates, idx, baudrate, feed, pos,
                   tried, trialHistory, result, found, miniterm>>

\* Whether the target has a byte pending within the one-second wait: a
\* "free" target may or may not, a "text" target has until its text is sent.
DataPending == IF feed = "text" THEN {pos < Len(Hello)} ELSE BOOLEAN

\* Line 212: wait_bytes() returns True (a byte is pending) or False (timeout).
wait_bytes ==
    /\ pc = "wait"
    /\ waited' = TRUE
    /\ \E data \in DataPending : pc' = IF data THEN "recv" ELSE "timeout"
    /\ UNCHANGED <<standalone, options, target, failedSwitches, prompts, reset_line, status, speed, candidates, idx, baudrate, locals,
                   feed, pos, tried, outcome, resetCalls, txCount, nread, sawInvalid,
                   lastByte, result, found, miniterm>>

\* The byte receive(1) returns.
NextBytes ==
    IF feed = "free" THEN Bytes
    ELSE IF feed = "noise" THEN Garbage
    ELSE {Hello[pos + 1]}

\* Mutant: the counters are cleared and the trial keeps listening.
reject_invalid_KeepListening ==
    /\ count' = 0 /\ whitespace' = 0 /\ punctuation' = 0 /\ vowels' = 0
    /\ loop' = loop /\ tmp' = tmp
    /\ sawInvalid' = TRUE
    /\ outcome' = outcome
    /\ pc' = "wait"
    /\ found' = found

\* Lines 235-240: an invalid character, process_baudrate returns False.
reject_invalid ==
    /\ LocalsUnbound
    /\ sawInvalid' = TRUE
    /\ outcome' = "Rejected"
    /\ pc' = "next"
    /\ found' = found

\* Lines 213-247: one byte is received, classified and scored.
receive_byte ==
    /\ pc = "recv"
    /\ \E b \in NextBytes :
          LET cat == Classify(b)
              c1 == Bump(count, CountCap)
              w1 == IF cat = "whitespace" THEN Bump(whitespace, ClassCap) ELSE whitespace
              p1 == IF cat = "punctuation" THEN Bump(punctuation, ClassCap) ELSE punctuation
              v1 == IF cat = "vowel" THEN Bump(vowels, ClassCap) ELSE vowels
          IN  /\ lastByte' = b
              /\ IF cat = "invalid"
                 THEN reject_invalid
                 ELSE /\ tmp' = b
                      /\ count' = c1 /\ whitespace' = w1
                      /\ punctuation' = p1 /\ vowels' = v1
                      /\ loop' = loop
                      /\ sawInvalid' = sawInvalid
                      /\ IF AcceptCondition(c1, w1, p1, v1)
                         THEN pc' = "prompt" /\ outcome' = "Accepted" /\ found' = baudrate
                         ELSE pc' = "wait" /\ outcome' = outcome /\ found' = found
    /\ nread' = Bump(nread, CountCap)
    /\ pos' = IF feed = "text" THEN pos + 1 ELSE pos
    /\ UNCHANGED <<standalone, options, target, failedSwitches, prompts, reset_line, status, speed, candidates, idx, baudrate, feed,
                   tried, resetCalls, waited, txCount, result, miniterm>>

\* Mutant: one attempt too many.
TriggerAllowed_OffByOne == options.trigger /\ loop <= MaxTriggerLoop

\* Line 248: the elif condition after a timeout.
TriggerAllowed == options.trigger /\ loop < MaxTriggerLoop

\* Lines 248-251 and trigger_device: the payload is transmitted.
trigger_device ==
    /\ pc = "timeout"
    /\ TriggerAllowed
    /\ loop' = loop + 1
    /\ txCount' = txCount + 1
    /\ pc' = "wait"
    /\ UNCHANGED <<standalone, options, target, failedSwitches, prompts, reset_line, status, speed, candidates, idx, baudrate, count,
                   whitespace, punctuation, vowels, tmp, feed, pos, tried, outcome,
                   resetCalls, waited, nread, sawInvalid, lastByte, result, found,
                   miniterm>>

\* Lines 252-256: "No data received", process_baudrate returns False.
no_data ==
    /\ pc = "timeout"
    /\ ~TriggerAllowed
    /\ LocalsUnbound
    /\ outcome' = "TimedOut"
    /\ pc' = "next"
    /\ UNCHANGED <<standalone, options, target, failedSwitches, prompts, reset_line, status, speed, candidates, idx, baudrate, feed, pos,
                   tried, resetCalls, waited, txCount, nread, sawInvalid, lastByte, result,
                   found, miniterm>>

\* Mutant: no break, the for loop goes on after an accepted candidate.
prompt_user_KeepScanning ==
    /\ pc = "prompt"
    /\ \E resp \in {"y", "n"} : miniterm' = (Upper(resp) = "Y")
    /\ prompts' = prompts + 1
    /\ LocalsUnbound
    /\ pc' = "next"
    /\ UNCHANGED <<standalone, options, target, failedSwitches, reset_line, status, speed, candidates, idx, baudrate, feed, pos,
                   tried, trialHistory, result, found>>

\* Lines 244-247 and the break of the for loop: the user answers the prompt,
\* the passthrough session is opened on 'y', process_baudrate returns True
\* and the mode function and run() return.
prompt_user ==
    /\ pc = "prompt"
    /\ \E resp \in {"y", "n"} : miniterm' = (Upper(resp) = "Y")
    /\ prompts' = prompts + 1
    /\ LocalsUnbound
    /\ Finish("Found")
    /\ UNCHANGED <<standalone, options, target, failedSwitches, reset_line, status, speed, candidates, idx, baudrate, feed, pos,
                   tried, trialHistory, found>>

\* ------------------------------------------------------------ exceptions
\* Places of run() whose next call goes to the transport, the reset line or
\* the terminal outside change_baudrate's own try block.
MayRaise ==
    \/ pc = "init" /\ options.reset_pin # NoPin
    \/ pc = "reset" /\ reset_line # "None"
    \/ pc \in {"reset_hold", "wait", "recv", "prompt"}
    \/ pc = "timeout" /\ TriggerAllowed

\* Lines 346-347: the exception leaves the loop, run() logs it and returns.
transport_error ==
    /\ MayRaise
    /\ LocalsUnbound
    /\ Finish("Error")
    /\ UNCHANGED <<standalone, options, target, failedSwitches, prompts, reset_line, status, speed, candidates, idx, baudrate, feed, pos,
                   tried, trialHistory, found, miniterm>>

\* Ctrl+C: KeyboardInterrupt is no Exception, so no handler of the module
\* catches it and it leaves run().
interrupt ==
    /\ pc # "done"
    /\ LocalsUnbound
    /\ Finish("Interrupted")
    /\ UNCHANGED <<standalone, options, target, failedSwitches, prompts, reset_line, status, speed, candidates, idx, baudrate, feed, pos,
                   tried, trialHistory, found, miniterm>>

Next ==
    \/ check_options
    \/ init
    \/ incremental_mode
    \/ list_mode
    \/ change_baudrate
    \/ loop_exhausted
    \/ reset_target
    \/ reset_release
    \/ reset_return
    \/ process_baudrate
    \/ wait_bytes
    \/ receive_byte
    \/ trigger_device
    \/ no_data
    \/ prompt_user
    \/ transport_error
    \/ interrupt

Spec == Init /\ [][Next]_vars

\* The interpreter keeps executing run() until it returns.
FairSpec == Spec /\ WF_vars(Next)

\* ------------------------------------------------ the classifier on its own
\* Every byte value is put through the classification of process_baudrate.
ClassifyInit ==
    /\ options = DefaultOptions
    /\ target = "any"
    /\ pc = "off"
    /\ RunIdle
    /\ WaiterIdle
    /\ probe \in 0..255
    /\ category = "none"

classify_probe ==
    /\ probe # Unbound
    /\ category = "none"
    /\ category' = Classify(probe)
    /\ UNCHANGED <<options, pc, reset_line, status, speed, candidates, idx, baudrate, locals,
                   feed, pos, tried, trialHistory, result, found, miniterm, target, prompts,
                   failedSwitches, probe, waiterVars>>

ClassifyNext == classify_probe

ClassifySpec == ClassifyInit /\ [][ClassifyNext]_vars

\* ------------------------------------------------ wait_bytes on its own
\* wait_bytes statement by statement, with the clock of time.time() passing
\* between its statements.  The clock stops at ClockCap, past every deadline.
ClockCap == MaxStart + timeout * TicksPerSecond + 2

WaitInit ==
    /\ options = DefaultOptions
    /\ target = "any"
    /\ pc = "off"
    /\ RunIdle
    /\ ClassifierIdle
    /\ now \in 0..MaxStart
    /\ timeout_start = Unbound /\ in_waiting = Unbound
    /\ wpc = "start" /\ wret = "None"
    /\ quiet \in BOOLEAN

\* Mutant: the timeout is not added to the start time.
Deadline_NoTimeout == timeout_start

\* Line 123: timeout_start + timeout.
Deadline == timeout_start + timeout * TicksPerSecond

\* Line 121: timeout_start = time.time()
wb_start ==
    /\ wpc = "start"
    /\ timeout_start' = now
    /\ wpc' = "loop"
    /\ UNCHANGED <<runVars, classifierVars, now, in_waiting, wret, quiet>>

\* Line 123: the loop test; line 127 when it fails.
wb_loop ==
    /\ wpc = "loop"
    /\ IF now < Deadline
       THEN wpc' = "poll" /\ wret' = wret
       ELSE wpc' = "ret" /\ wret' = "False"
    /\ UNCHANGED <<runVars, classifierVars, now, timeout_start, in_waiting, quiet>>

\* Line 124: in_waiting = self.uart_instance.in_waiting()
wb_poll ==
    /\ wpc = "poll"
    /\ in_waiting' \in (IF quiet THEN {0} ELSE 0..MaxPending)
    /\ wpc' = "test"
    /\ UNCHANGED <<runVars, classifierVars, now, timeout_start, wret, quiet>>

\* Lines 125-126: if in_waiting > 0: return True
wb_test ==
    /\ wpc = "test"
    /\ IF in_waiting > 0
       THEN wpc' = "ret" /\ wret' = "True"
       ELSE wpc' = "loop" /\ wret' = wret
    /\ UNCHANGED <<runVars, classifierVars, now, timeout_start, in_waiting, quiet>>

\* Time passes while wait_bytes runs (the call starts at the tick Init chose).
tick ==
    /\ wpc \in {"loop", "poll", "test"}
    /\ now < ClockCap
    /\ now' = now + 1
    /\ UNCHANGED <<runVars, classifierVars, timeout_start, in_waiting, wpc, wret, quiet>>

wb_step == wb_start \/ wb_loop \/ wb_poll \/ wb_test

WaitNext == wb_step \/ tick

\* The interpreter keeps executing wait_bytes and the clock keeps running.
WaitSpec == WaitInit /\ [][WaitNext]_vars /\ WF_vars(wb_step) /\ WF_vars(tick)

\* ------------------------------------ the legacy class Baudrates (baudrates.py)
\* Baudrates.run calls baudrate_detect, which scans a fixed list with the
\* trigger option only: no modes, no reset line.
baudrates == <<9600, 19200, 38400, 57600, 115200>>

BaudratesInit ==
    /\ options \in {[DefaultOptions EXCEPT !.trigger = t] : t \in BOOLEAN}
    /\ target = "any"
    /\ pc = "detect"
    /\ RunIdle
    /\ ClassifierIdle
    /\ WaiterIdle

\* baudrates.py lines 125-129: the counters are set once, before the loop.
baudrate_detect ==
    /\ pc = "detect"
    /\ count' = 0 /\ whitespace' = 0 /\ punctuation' = 0 /\ vowels' = 0
    /\ candidates' = baudrates
    /\ pc' = "next"
    /\ UNCHANGED <<standalone, options, target, failedSwitches, prompts, reset_line, status,
                   speed, idx, baudrate, loop, tmp, feed, pos, tried, trialHistory, result,
                   found, miniterm>>

\* baudrates.py lines 141-143: the next baudrate of the list is bound, loop
\* is cleared and change_baudrate is called; it returns False when a
\* transport call raised, as every call does once uart_pt_miniterm has
\* closed owf_serial (line 105).
Baudrates_change_baudrate ==
    /\ pc = "next"
    /\ idx < Len(candidates)
    /\ idx' = idx + 1
    /\ baudrate' = candidates[idx + 1]
    /\ tried' = Append(tried, candidates[idx + 1])
    /\ loop' = 0
    /\ \E ok \in (IF miniterm THEN {FALSE} ELSE BOOLEAN) :
          /\ pc' = IF ok THEN "wait" ELSE "next"
          /\ IF ok
             THEN speed' = candidates[idx + 1] /\ feed' \in FeedsAt(target, candidates[idx + 1])
             ELSE speed' \in {speed, candidates[idx + 1]} /\ feed' = "free"
          /\ outcome' = IF ok THEN "None" ELSE "SwitchFailed"
          /\ failedSwitches' = IF ok THEN failedSwitches ELSE failedSwitches + 1
    /\ pos' = 0
    /\ resetCalls' = 0 /\ waited' = FALSE /\ txCount' = 0 /\ nread' = 0
    /\ sawInvalid' = FALSE /\ lastByte' = Unbound
    /\ UNCHANGED <<standalone, options, target, prompts, reset_line, status, candidates,
                   count, whitespace, punctuation, vowels, tmp, result, found, miniterm>>

\* The for loop is over: baudrate_detect and run() return.
Baudrates_loop_end ==
    /\ pc = "next"
    /\ idx = Len(candidates)
    /\ LocalsUnbound
    /\ Finish(IF prompts > 0 THEN "Found" ELSE "Exhausted")
    /\ UNCHANGED <<standalone, options, target, failedSwitches, prompts, reset_line, status,
                   speed, candidates, idx, baudrate, feed, pos, tried, trialHistory, found,
                   miniterm>>

\* baudrates.py line 145: wait_bytes(uart_instance)
Baudrates_wait_bytes ==
    /\ pc = "wait"
    /\ waited' = TRUE
    /\ \E data \in DataPending : pc' = IF data THEN "recv" ELSE "timeout"
    /\ UNCHANGED <<standalone, options, target, failedSwitches, prompts, reset_line, status,
                   speed, candidates, idx, baudrate, locals, feed, pos, tried, outcome,
                   resetCalls, txCount, nread, sawInvalid, lastByte, result, found, miniterm>>

\* Mutant: the counters are cleared and the while loop goes on.
Baudrates_reject_invalid_KeepListening ==
    /\ count' = 0 /\ whitespace' = 0 /\ punctuation' = 0 /\ vowels' = 0
    /\ sawInvalid' = TRUE
    /\ outcome' = outcome
    /\ pc' = "wait"
    /\ found' = found

\* baudrates.py lines 167-176: an invalid character, the counters are
\* cleared and `break` leaves the while loop.
Baudrates_reject_invalid ==
    /\ count' = 0 /\ whitespace' = 0 /\ punctuation' = 0 /\ vowels' = 0
    /\ sawInvalid' = TRUE
    /\ outcome' = "Rejected"
    /\ pc' = "next"
    /\ found' = found

\* baudrates.py lines 146-177: one byte is received, classified and scored
\* (the byte itself is not kept: tmp is always assigned before it is read);
\* on an invalid one the counters are cleared and the while loop is left.
Baudrates_receive_byte ==
    /\ pc = "recv"
    /\ \E b \in NextBytes :
          LET cat == Classify(b)
              c1 == Bump(count, CountCap)
              w1 == IF cat = "whitespace" THEN Bump(whitespace, ClassCap) ELSE whitespace
              p1 == IF cat = "punctuation" THEN Bump(punctuation, ClassCap) ELSE punctuation
              v1 == IF cat = "vowel" THEN Bump(vowels, ClassCap) ELSE vowels
          IN  IF cat = "invalid"
              THEN Baudrates_reject_invalid
              ELSE /\ count' = c1 /\ whitespace' = w1
                   /\ punctuation' = p1 /\ vowels' = v1
                   /\ sawInvalid' = sawInvalid
                   /\ IF AcceptCondition(c1, w1, p1, v1)
                      THEN pc' = "prompt" /\ outcome' = "Accepted" /\ found' = baudrate
                      ELSE pc' = "wait" /\ outcome' = outcome /\ found' = found
    /\ nread' = Bump(nread, CountCap)
    /\ pos' = IF feed = "text" THEN pos + 1 ELSE pos
    /\ UNCHANGED <<standalone, options, target, failedSwitches, prompts, reset_line, status,
                   speed, candidates, idx, baudrate, loop, tmp, lastByte, feed, tried,
                   resetCalls, waited, txCount, result, miniterm>>

\* baudrates.py lines 185-188: trigger and loop < 3.
Baudrates_trigger_device ==
    /\ pc = "timeout"
    /\ TriggerAllowed
    /\ loop' = loop + 1
    /\ txCount' = txCount + 1
    /\ pc' = "wait"
    /\ UNCHANGED <<standalone, options, target, failedSwitches, prompts, reset_line, status,
                   speed, candidates, idx, baudrate, count, whitespace, punctuation, vowels,
                   tmp, feed, pos, tried, outcome, resetCalls, waited, nread, sawInvalid,
                   lastByte, result, found, miniterm>>

\* baudrates.py lines 189-193: "No data received", the while loop is left.
Baudrates_no_data ==
    /\ pc = "timeout"
    /\ ~TriggerAllowed
    /\ outcome' = "TimedOut"
    /\ pc' = "next"
    /\ UNCHANGED <<standalone, options, target, failedSwitches, prompts, reset_line, status,
                   speed, candidates, idx, baudrate, locals, feed, pos, tried, resetCalls,
                   waited, txCount, nread, sawInvalid, lastByte, result, found, miniterm>>

\* baudrates.py lines 180-184: the prompt; on 'y' uart_pt_miniterm opens the
\* passthrough and closes owf_serial.  Both breaks leave the while loop only.
Baudrates_prompt ==
    /\ pc = "prompt"
    /\ \E resp \in {"y", "n"} : miniterm' = (miniterm \/ Upper(resp) = "Y")
    /\ prompts' = prompts + 1
    /\ pc' = "next"
    /\ UNCHANGED <<standalone, options, target, failedSwitches, reset_line, status, speed,
                   candidates, idx, baudrate, locals, feed, pos, tried, trialHistory, result,
                   found>>

\* baudrates.py lines 208-209: an exception of a transport call outside
\* change_baudrate leaves baudrate_detect; run() logs it and returns.
Baudrates_transport_error ==
    /\ \/ pc \in {"wait", "recv", "prompt"}
       \/ pc = "timeout" /\ TriggerAllowed
    /\ LocalsUnbound
    /\ Finish("Error")
    /\ UNCHANGED <<standalone, options, target, failedSwitches, prompts, reset_line, status,
                   speed, candidates, idx, baudrate, feed, pos, tried, trialHistory, found,
                   miniterm>>

\* Ctrl+C: KeyboardInterrupt is not caught by run() (line 208).
Baudrates_interrupt ==
    /\ pc # "done"
    /\ LocalsUnbound
    /\ Finish("Interrupted")
    /\ UNCHANGED <<standalone, options, target, failedSwitches, prompts, reset_line, status,
                   speed, candidates, idx, baudrate, feed, pos, tried, trialHistory, found,
                   miniterm>>

BaudratesNext ==
    \/ baudrate_detect
    \/ Baudrates_change_baudrate
    \/ Baudrates_loop_end
    \/ Baudrates_wait_bytes
    \/ Baudrates_receive_byte
    \/ Baudrates_trigger_device
    \/ Baudrates_no_data
    \/ Baudrates_prompt
    \/ Baudrates_transport_error
    \/ Baudrates_interrupt

BaudratesSpec == BaudratesInit /\ [][BaudratesNext]_vars

\* ====================================================================
\* Properties
\* ====================================================================

InTrial == pc \in {"wait", "recv", "timeout"}

\* C1: once a candidate is accepted the run is over: no later candidate is
\* passed to change_baudrate, the transport speed, the reset line and the
\* trigger count no longer change, and the accepted baudrate is the first and
\* only one whose trial was accepted (the last one tried).
C1_AcceptEndsRun ==
    /\ [](found # 0 =>
            /\ outcome = "Accepted"
            /\ pc \in {"prompt", "done"}
            /\ tried # <<>> /\ found = tried[Len(tried)]
            /\ speed = found)
    /\ [](result = "Found" => found # 0)
    /\ [][found # 0 =>
            /\ found' = found
            /\ tried' = tried
            /\ speed' = speed
            /\ status' = status
            /\ resetCalls' = resetCalls
            /\ txCount' = txCount
            /\ nread' = nread]_vars
    /\ [][found' # found => found = 0 /\ found' = baudrate /\ outcome' = "Accepted"]_vars

C1_Witness ==
    /\ pc = "done" /\ result = "Found"
    /\ found = 9600 /\ tried = <<9600>> /\ Len(candidates) = 3

\* C2: a trial is accepted exactly at the first counted byte after which
\* count >= 20, whitespace > 0 and vowels > 0, whatever the punctuation count
\* is, never with fewer than 20 bytes received in the trial; the text
\* "Hello, world! This is a test.\n" is accepted at its 20th byte and none of
\* its bytes is invalid.
C2_AcceptAtThreshold ==
    /\ InTrial => ~(count >= 20 /\ whitespace > 0 /\ vowels > 0)
    /\ pc = "prompt" =>
          /\ count >= 20 /\ whitespace > 0 /\ vowels > 0
          /\ nread >= 20
          /\ outcome = "Accepted"
    /\ outcome = "Accepted" => nread >= 20
    /\ feed = "text" =>
          /\ ~sawInvalid
          /\ outcome \in {"None", "Accepted"}
          /\ nread <= 20
          /\ (nread = 20 /\ pc # "done") => pc = "prompt"

C2_Witness ==
    /\ pc = "prompt" /\ feed = "free"
    /\ nread = 20 /\ punctuation = 0 /\ whitespace > 0 /\ vowels > 0

\* C3: the first invalid byte ends the trial as rejected on that byte: no
\* further byte is read and nothing is transmitted for that candidate,
\* whatever the counters were; an accepted trial never saw an invalid byte.
C3_InvalidRejectsAtOnce ==
    /\ [](sawInvalid => outcome = "Rejected" /\ pc \in {"next", "done"})
    /\ [](outcome = "Accepted" => ~sawInvalid)
    /\ [](outcome = "Rejected" => sawInvalid)
    /\ [][sawInvalid /\ sawInvalid' =>
            nread' = nread /\ txCount' = txCount /\ lastByte' = lastByte]_vars
    /\ [][~sawInvalid /\ sawInvalid' =>
            pc = "recv" /\ pc' = "next" /\ outcome' = "Rejected" /\ txCount' = txCount]_vars

C3_Witness ==
    /\ sawInvalid /\ outcome = "Rejected" /\ pc = "next"
    /\ nread >= 20 /\ txCount = 2

\* C4: every run reaches Done, whatever the transport does.
C4_RunTerminates == <>(pc = "done")

\* C5: the trigger payload is transmitted only after a wait_bytes timeout and
\* only with the trigger option on, at most 3 times per trial; the attempt
\* counter starts at 0 in each trial and received bytes do not reset it; a
\* timeout with the trigger off or with 3 attempts used ends the trial as
\* "no data received"; with the trigger off nothing is ever transmitted.
C5_TriggerBounded ==
    /\ [](txCount <= 3)
    /\ [](~options.trigger => txCount = 0)
    /\ [](InTrial => loop = txCount)
    /\ [](pc = "process" => txCount = 0)
    /\ [][txCount' # txCount =>
            \/ /\ pc = "timeout" /\ options.trigger
               /\ txCount < 3 /\ txCount' = txCount + 1
            \/ pc = "next" /\ txCount' = 0]_vars
    /\ [][(pc = "timeout" /\ (~options.trigger \/ txCount >= 3)) =>
            \/ pc' = "next" /\ outcome' = "TimedOut" /\ txCount' = txCount
            \/ pc' = "done" /\ result' = "Interrupted"
            \/ UNCHANGED vars]_vars

C5_Witness ==
    /\ outcome = "TimedOut" /\ pc = "next"
    /\ txCount = 3 /\ nread > 0

\* C6: for a candidate whose speed switch succeeded reset_target is called
\* exactly once, after change_baudrate and before the first wait_bytes; for a
\* candidate whose switch failed neither reset_target nor wait_bytes is called.
C6_ResetOncePerTrial ==
    /\ resetCalls <= 1
    /\ pc = "reset" => resetCalls = 0 /\ ~waited /\ outcome = "None"
    /\ pc \in {"reset_hold", "reset_delay", "process"} => resetCalls = 1 /\ ~waited
    /\ pc \in {"wait", "recv", "timeout", "prompt"} => resetCalls = 1
    /\ waited => resetCalls = 1
    /\ pc \in {"reset", "reset_hold", "reset_delay", "process", "wait", "recv", "timeout",
               "prompt"} => speed = baudrate /\ tried[Len(tried)] = baudrate
    /\ outcome = "SwitchFailed" => resetCalls = 0 /\ ~waited /\ pc \in {"next", "done"}

C6_Witness ==
    /\ pc = "wait" /\ ~waited /\ resetCalls = 1
    /\ reset_line = "GPIO" /\ Len(tried) = 2

\* C7: with a reset pin, init leaves the line idle (1 for LOW, 0 for HIGH),
\* reset_target drives it to the opposite level and back to idle before the
\* settle delay; the line is idle whenever bytes are waited for, read or
\* classified and when the run ends normally.  Without a pin the line is
\* never written.
C7_IdleLevel == IF options.reset_dir \in {"low", "LOW"} THEN 1 ELSE 0

C7_ResetLineIdle ==
    /\ options.reset_pin = NoPin => status = Unbound /\ reset_line = "None"
    /\ (options.reset_pin # NoPin /\ pc = "reset_hold") => status = 1 - C7_IdleLevel
    /\ (options.reset_pin # NoPin
          /\ pc \in {"mode", "next", "reset", "reset_delay", "process", "wait", "recv",
                     "timeout", "prompt"}) => status = C7_IdleLevel
    /\ (options.reset_pin # NoPin /\ pc = "done" /\ result \in {"Found", "Exhausted"}) =>
          status = C7_IdleLevel

C7_Witness ==
    /\ pc = "wait" /\ options.reset_pin = 3 /\ options.reset_dir = "HIGH"
    /\ status = 0 /\ resetCalls = 1 /\ Len(tried) = 2

\* C8: in list mode the baudrates passed to change_baudrate are a prefix of
\* the comma-separated list (blanks trimmed, order kept, duplicates kept and
\* tried again); every position is tried once, none is skipped or retried.
C8_Expected ==
    IF options.baudrate_list = ListA THEN <<9600, 19200, 38400>>
    ELSE IF options.baudrate_list = ListDup THEN <<9600, 9600>>
    ELSE <<>>

C8_ListOrder ==
    options.mode = "list" =>
        /\ Len(tried) <= Len(C8_Expected)
        /\ \A i \in 1..Len(tried) : tried[i] = C8_Expected[i]
        /\ idx = Len(tried)
        /\ pc \in {"reset", "reset_hold", "reset_delay", "process", "wait", "recv",
                   "timeout", "prompt"} => baudrate = C8_Expected[Len(tried)]
        /\ result = "Exhausted" => tried = C8_Expected

C8_Witness ==
    /\ options.mode = "list" /\ options.baudrate_list = ListDup
    /\ tried = <<9600, 9600>> /\ pc = "wait"

C10_ControlNotCounted ==
    [][(/\ pc = "recv" /\ pc' # "done"
        /\ lastByte' \in {14, 15, 224, 254, 192, 13, 10}) =>
            /\ pc' = "wait"
            /\ count' = count /\ whitespace' = whitespace
            /\ punctuation' = punctuation /\ vowels' = vowels]_vars

\* C11: every byte of the control set {0x0E, 0x0F, 0xE0, 0xFE, 0xC0, 0x0D,
\* 0x0A} is classified Control: never invalid and never counted as
\* whitespace, punctuation or vowel.
C11_ControlSetIsControl ==
    (category # "none" /\ probe \in {14, 15, 224, 254, 192, 13, 10}) =>
        category \notin {"invalid", "whitespace", "punctuation", "vowel"}

\* C12: over all 256 byte values, a byte in 0x20..0x7E or in the whitespace
\* set (space, tab, CR, LF) is never invalid, and a byte outside that set and
\* outside the control set is invalid.
C12_ValidRange ==
    category # "none" =>
        /\ probe \in (32..126) \cup {32, 9, 13, 10} => category # "invalid"
        /\ (/\ probe \notin (32..126) \cup {32, 9, 13, 10}
            /\ probe \notin {14, 15, 224, 254, 192, 13, 10}) => category = "invalid"

C12_Witness == probe = 127 /\ category = "invalid"

\* C13: when change_baudrate fails for a candidate, that candidate is over
\* (no reset, no trial) and the loop goes on with the next candidate; the
\* run is not aborted and a later candidate can still be accepted.
C13_FailedSwitchGoesOn ==
    /\ [](outcome = "SwitchFailed" => failedSwitches > 0)
    /\ []((outcome = "SwitchFailed" /\ pc # "done") => pc = "next" /\ result = "None")
    /\ [][failedSwitches' # failedSwitches =>
            /\ failedSwitches' = failedSwitches + 1
            /\ outcome' = "SwitchFailed"
            /\ pc' = "next" /\ result' = "None"
            /\ tried' = Append(tried, baudrate')]_vars
    /\ [][(outcome = "SwitchFailed" /\ pc = "next" /\ idx < Len(candidates)) =>
            \/ /\ tried' = Append(tried, candidates[idx + 1])
               /\ pc' \in {"reset", "next"}
            \/ pc' = "done" /\ result' = "Interrupted"
            \/ UNCHANGED vars]_vars
    /\ [][(outcome = "SwitchFailed" /\ pc = "next" /\ idx = Len(candidates)) =>
            \/ pc' = "done" /\ result' \in {"Exhausted", "Interrupted"}
            \/ UNCHANGED vars]_vars

C13_Witness ==
    /\ result = "Found" /\ failedSwitches = 1
    /\ tried = <<9600, 19200>> /\ found = 19200 /\ target = "talks19200"

\* C14: a transport error raised by trigger_device (transmit), receive or
\* the in_waiting query during a trial abandons only the current candidate:
\* the trial is left for the next candidate of the loop (or for the prompt
\* after an accept), never for the end of the run with candidates untried.
C14_TrialErrorGoesOn ==
    [][(InTrial /\ ~InTrial') =>
         \/ pc' \in {"next", "prompt"}
         \/ pc' = "done" /\ result' = "Interrupted"]_vars

\* The run never got past check_options: init was not called, the transport
\* and the reset line were not touched, no candidate was tried and no error
\* reached run()'s handler.
NeverStarted ==
    /\ pc \in {"run", "done"}
    /\ result \in {"None", "NotStarted"}
    /\ reset_line = "None" /\ status = Unbound
    /\ speed = 0 /\ tried = <<>> /\ failedSwitches = 0 /\ txCount = 0

\* C15: in incremental mode, baudrate_increment <= 0 or
\* baudrate_min >= baudrate_max is rejected by check_options before the run
\* starts: no init, no transport reconfiguration, no reset-line write, no
\* candidate tried and no runtime error later.
C15_BadRangeRejected ==
    (/\ Upper(options.mode) = "INCREMENTAL"
     /\ \/ options.baudrate_increment <= 0
        \/ options.baudrate_min >= options.baudrate_max) => NeverStarted

\* C16: in list mode, an empty baudrate_list or one with an item that is
\* no integer makes check_options return False: no init, no reset-line
\* write, no transport operation and no candidate tried.
C16_BadListRejected ==
    (/\ Upper(options.mode) = "LIST"
     /\ \/ options.baudrate_list = <<>>
        \/ ~ListParses(options.baudrate_list)) => NeverStarted

\* C17: a user interrupt at any point of the run, in particular while
\* wait_bytes polls, halts the run with the reset line (if configured) at
\* its idle level and the result Exhausted; no exception leaves run().
C17_InterruptIsGraceful ==
    [][(pc # "done" /\ pc' = "done" /\ result' \notin {"NotStarted", "Error", "Found"}) =>
         /\ result' = "Exhausted"
         /\ reset_line' = "GPIO" => status' = C7_IdleLevel]_vars

\* The end-to-end scenario: list mode over 9600, 19200, 38400, no reset pin,
\* no trigger, and a target that sends acceptable text at 19200 only.
C18_Scenario ==
    /\ Upper(options.mode) = "LIST" /\ options.baudrate_list = ListA
    /\ options.reset_pin = NoPin /\ ~options.trigger
    /\ target = "talks19200"

\* What the scenario never does: write the reset line, transmit, accept a
\* speed other than 19200, reject or time out 19200, or go on to 38400 after
\* the transport took the switch to 19200.
C18_NoSideEffects ==
    /\ reset_line = "None" /\ status = Unbound
    /\ txCount = 0
    /\ found \in {0, 19200}
    /\ result = "Found" => found = 19200 /\ tried = <<9600, 19200>>
    /\ baudrate = 19200 => outcome \notin {"Rejected", "TimedOut"}
    /\ (Len(tried) = 3 /\ failedSwitches = 0) => FALSE
    /\ (result = "Exhausted" /\ failedSwitches = 0) => FALSE

\* C18: end to end, in the scenario the run reports 19200 as found (unless
\* the transport raises or the user interrupts), never switches to 38400,
\* never writes the reset line and never transmits.
C18_EndToEnd ==
    C18_Scenario =>
        /\ [](C18_NoSideEffects)
        /\ <>(\/ result = "Found" /\ found = 19200
              \/ result \in {"Error", "Interrupted"}
              \/ failedSwitches > 0)

\* C19: wait_bytes returns True as soon as a poll sees in_waiting > 0, and
\* False only once the timeout of one second has elapsed with every poll
\* having seen 0; when the pending count is always 0 it returns False, not
\* before the timeout, and it always returns.
C19_WaitBytes ==
    /\ [](wret = "True" => in_waiting > 0)
    /\ [](wret = "False" => now >= timeout_start + timeout * TicksPerSecond)
    /\ []((wret # "True" /\ wpc # "test") => in_waiting \in {Unbound, 0})
    /\ [][(wpc = "test" /\ in_waiting > 0 /\ wpc' # wpc) =>
            wpc' = "ret" /\ wret' = "True"]_vars
    /\ [][wret' # wret => wret = "None" /\ wpc' = "ret"]_vars
    /\ [](quiet => wret # "True")
    /\ <>(wpc = "ret" /\ wret \in {"True", "False"})
    /\ (quiet => <>(wret = "False"))

C19_Witness ==
    /\ quiet /\ wret = "False" /\ wpc = "ret"
    /\ now = timeout_start + timeout * TicksPerSecond

\* C20: the prompt (and the passthrough session) is invoked only after a
\* candidate has been accepted, at most once per run, never from a rejected
\* or timed-out trial; and the answer does not influence the detection:
\* whatever it is, nothing is switched to, tried or accepted after it.
C20_PromptOnceAfterAccept ==
    /\ [](prompts <= 1)
    /\ [](miniterm => prompts > 0)
    /\ [][prompts' # prompts =>
            /\ pc = "prompt" /\ outcome = "Accepted" /\ found = baudrate
            /\ prompts' = prompts + 1]_vars
    /\ [][prompts > 0 =>
            /\ tried' = tried /\ speed' = speed /\ found' = found
            /\ failedSwitches' = failedSwitches]_vars

\* C21: an invalid mode (neither 'incremental' nor 'list', whatever the
\* case) or, with a reset pin set, an invalid reset direction or a pin
\* outside 0..14 is surfaced by check_options before any trial: the run does
\* not start, init is not called, the transport and the reset line are not
\* touched.
C21_InvalidOptionsRejected ==
    (\/ Upper(options.mode) \notin {"INCREMENTAL", "LIST"}
     \/ /\ options.reset_pin # NoPin
        /\ \/ Upper(options.reset_dir) \notin {"LOW", "HIGH"}
           \/ options.reset_pin \notin 0..14) =>
        /\ pc \in {"run", "done"}
        /\ result \in {"None", "NotStarted", "Interrupted"}
        /\ pc = "done" => result # "None"
        /\ reset_line = "None" /\ status = Unbound
        /\ speed = 0 /\ candidates = <<>> /\ tried = <<>>
        /\ failedSwitches = 0 /\ txCount = 0 /\ resetCalls = 0 /\ ~waited

C21_Witness ==
    /\ pc = "done" /\ result = "NotStarted"
    /\ options.reset_pin = 15 /\ Upper(options.mode) = "LIST"

\* C22: in the legacy variant, once a candidate is accepted ("Valid baudrate
\* found") the scan stops: no later baudrate of the list is switched to and
\* at most one baudrate is reported as valid per run.
C22_LegacyAcceptStopsScan ==
    /\ [][found # 0 => tried' = tried /\ speed' = speed /\ idx' = idx]_vars
    /\ [][(outcome # "Accepted" /\ outcome' = "Accepted") => found = 0]_vars

\* C23: in both variants no scoring state carries across candidates: when
\* the trial of a candidate starts (nothing waited for yet) count,
\* whitespace, punctuation, vowels and the trigger counter loop are all 0,
\* whatever the previous trial's outcome was; so an accept rests on at least
\* `threshold` bytes received at the accepted speed.
C23_CountersStartAtZero ==
    /\ (pc = "wait" /\ ~waited) =>
          /\ count = 0 /\ whitespace = 0 /\ punctuation = 0 /\ vowels = 0
          /\ loop = 0
    /\ (pc = "prompt" /\ outcome = "Accepted") => nread >= threshold

\* C24 as stated: on an invalid byte Baudrates.baudrate_detect clears all
\* counters and keeps listening on the same candidate; a candidate that sent
\* an invalid byte is abandoned only when a wait times out.
C24_LegacyListensOn ==
    /\ [][(pc = "recv" /\ sawInvalid' /\ ~sawInvalid /\ pc' # "done") =>
            /\ pc' = "wait" /\ baudrate' = baudrate
            /\ count' = 0 /\ whitespace' = 0 /\ punctuation' = 0 /\ vowels' = 0]_vars
    /\ [][(sawInvalid /\ pc # "next" /\ pc' = "next") => outcome' = "TimedOut"]_vars

\* C24, amended: on an invalid byte Baudrates.baudrate_detect clears all
\* counters and abandons the candidate at once, as Baudrate.process_baudrate
\* does: the next step of the scan is the switch to the next baudrate of the
\* list (or the end of the list), no further byte is waited for or read at
\* the rejected speed.
C24_LegacyRejectsAtOnce ==
    /\ [][(pc = "recv" /\ sawInvalid' /\ ~sawInvalid) =>
            /\ pc' = "next" /\ outcome' = "Rejected"
            /\ count' = 0 /\ whitespace' = 0 /\ punctuation' = 0 /\ vowels' = 0]_vars
    /\ [](sawInvalid => pc \in {"next", "done"} /\ outcome = "Rejected")
    /\ [][(sawInvalid /\ pc = "next" /\ pc' # "done") =>
            /\ idx' = idx + 1 /\ baudrate' = baudrates[idx + 1]
            /\ ~sawInvalid' /\ nread' = 0]_vars

C24_Witness ==
    /\ pc = "next" /\ outcome = "Rejected" /\ sawInvalid
    /\ baudrate = 9600 /\ nread = 3 /\ count = 0 /\ waited

====
